---- MODULE Spec2Model ----
(***************************************************************************)
(* A model of the Chip8 interpreter of src/src/main.rs: the Chip8 struct,  *)
(* its methods, and the body of the main loop (fetch, decode, dispatch,    *)
(* timer update, render / input refresh).                                  *)
(***************************************************************************)
EXTENDS Integers, Sequences, FiniteSets, TLC

\* ------------------------------------------------------------------------
\* Program constants
\* ------------------------------------------------------------------------
WIDTH == 64
HEIGHT == 32
MEM_SIZE == 4096
STACK_SIZE == 16
font_start == 80
rom_start == 512

CHIP8_FONTSET ==
    << 240, 144, 144, 144, 240,
        32,  96,  32,  32, 112,
       240,  16, 240, 128, 240,
       240,  16, 240,  16, 240,
       144, 144, 240,  16,  16,
       240, 128, 240,  16, 240,
       240, 128, 240, 144, 240,
       240,  16,  32,  64,  64,
       240, 144, 240, 144, 240,
       240, 144, 240,  16, 240,
       240, 144, 240, 144, 144,
       224, 144, 224, 144, 224,
       240, 128, 128, 128, 240,
       224, 144, 144, 144, 224,
       240, 128, 240, 128, 240,
       240, 128, 240, 128, 128 >>

\* The logical key codes of key_map (0x0 .. 0xF).
KeyCodes == 0 .. 15

\* ------------------------------------------------------------------------
\* u8 / u16 arithmetic
\* ------------------------------------------------------------------------
RECURSIVE BitAnd(_, _)
BitAnd(a, b) ==
    IF a = 0 \/ b = 0 THEN 0
    ELSE (a % 2) * (b % 2) + 2 * BitAnd(a \div 2, b \div 2)

RECURSIVE BitOr(_, _)
BitOr(a, b) ==
    IF a = 0 THEN b
    ELSE IF b = 0 THEN a
    ELSE (IF a % 2 = 1 \/ b % 2 = 1 THEN 1 ELSE 0) + 2 * BitOr(a \div 2, b \div 2)

RECURSIVE BitXor(_, _)
BitXor(a, b) ==
    IF a = 0 THEN b
    ELSE IF b = 0 THEN a
    ELSE ((a + b) % 2) + 2 * BitXor(a \div 2, b \div 2)

RECURSIVE Shr(_, _)
Shr(a, k) == IF k = 0 THEN a ELSE Shr(a \div 2, k - 1)

\* u8::overflowing_add / u8::overflowing_sub: the wrapped result and the flag.
overflowing_add(a, b) ==
    [result |-> (a + b) % 256, overflow |-> a + b > 255]

overflowing_sub(a, b) ==
    [result |-> (a - b + 256) % 256, overflow |-> a < b]

\* ------------------------------------------------------------------------
\* State
\* ------------------------------------------------------------------------
VARIABLES
    chip8,          \* the Chip8 struct: mem, pc, v, i, stack, sp, timers, display
    keys_down,      \* the window's input state: logical keys currently held
    keys_released,  \* logical keys released by the latest window update
    window_open,    \* window.is_open() && !window.is_key_down(Key::Escape)
    phase,          \* position in main: "fetch", "timer", "render", "exited", "panicked"
    rom             \* the bytes of the ROM file read by load_rom

vars == <<chip8, keys_down, keys_released, window_open, phase, rom>>

\* ------------------------------------------------------------------------
\* Chip8 methods
\* ------------------------------------------------------------------------
\* mem and display are kept sparse: mem is the function from the addresses of
\* the nonzero cells (of the MEM_SIZE cells 0 .. MEM_SIZE - 1) to their bytes,
\* display the set of the <<row, column>> cells that are true.
mem_get(m, a) == IF a \in DOMAIN m.mem THEN m.mem[a] ELSE 0

mem_set(m, a, b) ==
    [m EXCEPT !.mem =
        IF b = 0
        THEN [c \in DOMAIN m.mem \ {a} |-> m.mem[c]]
        ELSE [c \in DOMAIN m.mem \cup {a} |-> IF c = a THEN b ELSE m.mem[c]]]

pixel(m, r, c) == <<r, c>> \in m.display

new_chip8 ==
    [ mem         |-> [a \in {} |-> 0],
      pc          |-> rom_start,
      v           |-> [r \in 0 .. 15 |-> 0],
      i           |-> 0,
      stack       |-> [s \in 0 .. STACK_SIZE - 1 |-> 0],
      sp          |-> 0,
      delay_timer |-> 0,
      sound_timer |-> 0,
      display     |-> {} ]

\* mem[start .. start + len) = bytes (clone_from_slice).
copy_slice(m, start, bytes) ==
    LET inside(a) == a >= start /\ a < start + Len(bytes)
        kept == { a \in DOMAIN m.mem : ~inside(a) }
        put  == { a \in start .. start + Len(bytes) - 1 : bytes[a - start + 1] # 0 }
    IN  [m EXCEPT !.mem =
            [a \in kept \cup put |->
                IF inside(a) THEN bytes[a - start + 1] ELSE m.mem[a]]]

load_fonts(m) == copy_slice(m, font_start, CHIP8_FONTSET)

load_rom(m, bytes) == copy_slice(m, rom_start, bytes)

\* Mutant of jmp: the fetch-time increment is added to the target.
jmp_plus_two(m, target) == [m EXCEPT !.pc = target + 2]

jmp(m, target) == [m EXCEPT !.pc = target]

cls(m) == [m EXCEPT !.display = {}]

\* Mutant of jsr: the stack pointer grows without wrapping.
jsr_no_wrap(m, target) ==
    [m EXCEPT !.stack[m.sp] = m.pc,
              !.sp = m.sp + 1,
              !.pc = target]

jsr(m, target) ==
    [m EXCEPT !.stack[m.sp] = m.pc,
              !.sp = (m.sp + 1) % 16,
              !.pc = target]

\* Mutant of rts: the slot is read before the pointer is decremented.
rts_read_first(m) ==
    LET s   == overflowing_sub(m.sp, 1)
        sp1 == IF s.overflow THEN 15 ELSE s.result
    IN  [m EXCEPT !.sp = sp1, !.pc = m.stack[m.sp]]

\* Mutant of rts: sp stays at 0 on underflow.
rts_no_wrap(m) ==
    LET s   == overflowing_sub(m.sp, 1)
        sp1 == IF s.overflow THEN 0 ELSE s.result
    IN  [m EXCEPT !.sp = sp1, !.pc = m.stack[sp1]]

rts(m) ==
    LET s   == overflowing_sub(m.sp, 1)
        sp1 == IF s.overflow THEN 15 ELSE s.result
    IN  [m EXCEPT !.sp = sp1, !.pc = m.stack[sp1]]

skc(m, condition) ==
    IF condition THEN [m EXCEPT !.pc = m.pc + 2] ELSE m

\* ------------------------------------------------------------------------
\* Fetch and decode (top of the loop body)
\* ------------------------------------------------------------------------
\* The loop condition holds and both instruction bytes are inside mem.
CanFetch == phase = "fetch" /\ window_open /\ chip8.pc + 1 < MEM_SIZE

instr_high == mem_get(chip8, chip8.pc)
instr_low == mem_get(chip8, chip8.pc + 1)

\* chip8.pc += 2, done before the dispatch.
fetched == [chip8 EXCEPT !.pc = chip8.pc + 2]

x == BitAnd(instr_high, 15)
\* `instr_low & 0xF0 >> 4`: in Rust >> binds tighter than &.
y == BitAnd(instr_low, Shr(240, 4))
z == BitAnd(instr_low, 15)
nnn == BitOr(x * 256, instr_low)
family == Shr(BitAnd(instr_high, 240), 4)

\* The outcome of a dispatch arm: the struct as the arm leaves it, and whether
\* the arm panicked (a panic! call, an index out of bounds, a checked overflow).
Ok(m) == [chip8 |-> m, panicked |-> FALSE]
Panic(m) == [chip8 |-> m, panicked |-> TRUE]

\* An arithmetic overflow of `+` / `+=`: a build with overflow checks (cargo's
\* dev profile, `checks`) panics, a build without them (release) wraps.
OnOverflow(checks, overflows, wrapped, faulted) ==
    IF overflows /\ checks THEN Panic(faulted) ELSE Ok(wrapped)

Commit(r) ==
    /\ chip8' = r.chip8
    /\ phase' = IF r.panicked THEN "panicked" ELSE "timer"
    /\ UNCHANGED <<keys_down, keys_released, window_open, rom>>

\* ------------------------------------------------------------------------
\* The dispatch arms
\* ------------------------------------------------------------------------
\* Mutant of exec_0: an unrecognised low byte is skipped.
exec_0_skip_unknown(m) ==
    CASE instr_low = 224 -> Ok(cls(m))
      [] instr_low = 238 -> Ok(rts(m))
      [] OTHER -> Ok(m)

\* Mutant of exec_0: 00EE clears the display as well.
exec_0_rts_clears(m) ==
    CASE instr_low = 224 -> Ok(cls(m))
      [] instr_low = 238 -> Ok(rts(cls(m)))
      [] OTHER -> Panic(m)

exec_0(m) ==
    CASE instr_low = 224 -> Ok(cls(m))
      [] instr_low = 238 -> Ok(rts(m))
      [] OTHER -> Panic(m)

exec_1(m) == Ok(jmp(m, nnn))

exec_2(m) == Ok(jsr(m, nnn))

exec_3(m) == Ok(skc(m, m.v[x] = instr_low))

exec_4(m) == Ok(skc(m, m.v[x] # instr_low))

exec_5(m) == Ok(skc(m, m.v[x] = m.v[y]))

exec_6(m) == Ok([m EXCEPT !.v[x] = instr_low])

exec_7(m, checks) ==
    OnOverflow(checks, m.v[x] + instr_low > 255,
               [m EXCEPT !.v[x] = (m.v[x] + instr_low) % 256],
               m)

alu_add(m) ==
    LET r == overflowing_add(m.v[x], m.v[y])
        m1 == [m EXCEPT !.v[x] = r.result]
    IN  [m1 EXCEPT !.v[15] = IF r.overflow THEN 1 ELSE 0]

alu_sub(m) ==
    LET r == overflowing_sub(m.v[x], m.v[y])
        m1 == [m EXCEPT !.v[x] = r.result]
    IN  [m1 EXCEPT !.v[15] = IF r.overflow THEN 1 ELSE 0]

alu_shr(m) ==
    LET m1 == [m EXCEPT !.v[15] = BitAnd(m.v[x], 1)]
    IN  [m1 EXCEPT !.v[x] = Shr(m1.v[x], 1)]

alu_subn(m) ==
    LET r == overflowing_sub(m.v[y], m.v[x])
        m1 == [m EXCEPT !.v[x] = r.result]
    IN  [m1 EXCEPT !.v[15] = IF r.overflow THEN 1 ELSE 0]

alu_shl(m) ==
    LET m1 == [m EXCEPT !.v[15] = Shr(BitAnd(m.v[x], 128), 7)]
    IN  [m1 EXCEPT !.v[x] = (m1.v[x] * 2) % 256]

exec_8(m) ==
    CASE z = 0 -> Ok([m EXCEPT !.v[x] = m.v[y]])
      [] z = 1 -> Ok([m EXCEPT !.v[x] = BitOr(m.v[x], m.v[y])])
      [] z = 2 -> Ok([m EXCEPT !.v[x] = BitAnd(m.v[x], m.v[y])])
      [] z = 3 -> Ok([m EXCEPT !.v[x] = BitXor(m.v[x], m.v[y])])
      [] z = 4 -> Ok(alu_add(m))
      [] z = 5 -> Ok(alu_sub(m))
      [] z = 6 -> Ok(alu_shr(m))
      [] z = 7 -> Ok(alu_subn(m))
      [] z = 14 -> Ok(alu_shl(m))
      [] OTHER -> Panic(m)

exec_9(m) == Ok(skc(m, m.v[x] # m.v[y]))

exec_A(m) == Ok([m EXCEPT !.i = nnn])

exec_B(m) == Ok(jmp(m, m.v[0] + nnn))

\* Mutant of exec_C: the random byte is or-ed with nn.
exec_C_or(m, rnd) == Ok([m EXCEPT !.v[x] = BitOr(rnd, instr_low)])

exec_C(m, rnd) == Ok([m EXCEPT !.v[x] = BitAnd(rnd, instr_low)])

\* 0xD: the inner `while bit > 0` loop over one sprite row.
RECURSIVE draw_bits(_, _, _, _, _)
draw_bits(m, sprite_byte, bit, x_disp, y_disp) ==
    IF bit = 0 THEN Ok(m)
    ELSE IF BitAnd(sprite_byte, bit) # 0 /\ ~(y_disp < HEIGHT /\ x_disp < WIDTH)
    THEN Panic(m)
    ELSE
        LET m1 == IF BitAnd(sprite_byte, bit) # 0
                  THEN IF pixel(m, y_disp, x_disp)
                       THEN [m EXCEPT !.display = @ \ {<<y_disp, x_disp>>}, !.v[15] = 1]
                       ELSE [m EXCEPT !.display = @ \cup {<<y_disp, x_disp>>}]
                  ELSE m
        IN  IF x_disp + 1 = 64 THEN Ok(m1)
            ELSE draw_bits(m1, sprite_byte, Shr(bit, 1), x_disp + 1, y_disp)

\* Mutant of draw_rows: VF is cleared at the start of every row.
RECURSIVE draw_rows_flag_per_row(_, _, _)
draw_rows_flag_per_row(m, row, y_disp) ==
    IF row >= z THEN Ok(m)
    ELSE IF m.i + row >= MEM_SIZE THEN Panic(m)
    ELSE
        LET m0 == [m EXCEPT !.v[15] = 0]
            r  == draw_bits(m0, mem_get(m0, m0.i + row), 128, m0.v[x] % 64, y_disp)
        IN  IF r.panicked THEN r
            ELSE IF y_disp + 1 = 32 THEN r
            ELSE draw_rows_flag_per_row(r.chip8, row + 1, y_disp + 1)

\* 0xD: the outer `for row in 0..z` loop.
RECURSIVE draw_rows(_, _, _)
draw_rows(m, row, y_disp) ==
    IF row >= z THEN Ok(m)
    ELSE IF m.i + row >= MEM_SIZE THEN Panic(m)
    ELSE
        LET r == draw_bits(m, mem_get(m, m.i + row), 128, m.v[x] % 64, y_disp)
        IN  IF r.panicked THEN r
            ELSE IF y_disp + 1 = 32 THEN r
            ELSE draw_rows(r.chip8, row + 1, y_disp + 1)

exec_D(m) ==
    LET y_disp == m.v[y] % 32
    IN  draw_rows([m EXCEPT !.v[15] = 0], 0, y_disp)

\* 0xE: key_map[&v[x]] panics when v[x] is not a key of the map.
exec_E(m) ==
    CASE instr_low = 158 ->
            IF m.v[x] \in KeyCodes THEN Ok(skc(m, m.v[x] \in keys_down)) ELSE Panic(m)
      [] instr_low = 161 ->
            IF m.v[x] \in KeyCodes THEN Ok(skc(m, m.v[x] \in keys_released)) ELSE Panic(m)
      [] OTHER -> Panic(m)

\* Mutant of wait_key: the program counter is not rewound when no key is held.
wait_key_no_rewind(m) ==
    IF keys_down = {}
    THEN {Ok(m)}
    ELSE {Ok([m EXCEPT !.v[x] = k]) : k \in keys_down}

\* Fx0A: the first held key met while iterating key_map (a HashMap, so any
\* held key can be the first), or pc -= 2 when none is held.
wait_key(m) ==
    IF keys_down = {}
    THEN {Ok([m EXCEPT !.pc = m.pc - 2])}
    ELSE {Ok([m EXCEPT !.v[x] = k]) : k \in keys_down}

\* Fx33: one store `mem[(i + off) as usize] = digit`, the sum taken in u16.
bcd_write(m, off, digit) ==
    LET a == (m.i + off) % 65536
    IN  IF a < MEM_SIZE THEN Ok(mem_set(m, a, digit)) ELSE Panic(m)

\* Mutant of store_bcd: the digits are stored in the opposite order (ones at
\* I, hundreds at I + 2).
store_bcd_reversed(m, checks) ==
    LET hex_num == m.v[x]
        r2 == bcd_write(m, 0, hex_num % 10)
        r1 == IF r2.panicked THEN r2
              ELSE bcd_write(r2.chip8, 1, (hex_num \div 10) % 10)
        r0 == IF r1.panicked THEN r1
              ELSE bcd_write(r1.chip8, 2, (hex_num \div 100) % 10)
    IN  IF m.i + 2 > 65535 /\ checks THEN Panic(m) ELSE r0

\* Fx33: ones at I + 2 first, then tens at I + 1, then hundreds at I. `i + 2`
\* overflowing u16 panics at once in a build with overflow checks.
store_bcd(m, checks) ==
    LET hex_num == m.v[x]
        r2 == bcd_write(m, 2, hex_num % 10)
        r1 == IF r2.panicked THEN r2
              ELSE bcd_write(r2.chip8, 1, (hex_num \div 10) % 10)
        r0 == IF r1.panicked THEN r1
              ELSE bcd_write(r1.chip8, 0, (hex_num \div 100) % 10)
    IN  IF m.i + 2 > 65535 /\ checks THEN Panic(m) ELSE r0

\* Fx55: `for i in 0..x`.
RECURSIVE store_regs(_, _)
store_regs(m, k) ==
    IF k >= x THEN Ok(m)
    ELSE IF m.i + k >= MEM_SIZE THEN Panic(m)
    ELSE store_regs(mem_set(m, m.i + k, m.v[k]), k + 1)

\* Fx65: `for i in 0..x`.
RECURSIVE load_regs(_, _)
load_regs(m, k) ==
    IF k >= x THEN Ok(m)
    ELSE IF m.i + k >= MEM_SIZE THEN Panic(m)
    ELSE load_regs([m EXCEPT !.v[k] = mem_get(m, m.i + k)], k + 1)

exec_F(m, checks) ==
    CASE instr_low = 7 -> {Ok([m EXCEPT !.v[x] = m.delay_timer])}
      [] instr_low = 10 -> wait_key(m)
      [] instr_low = 21 -> {Ok([m EXCEPT !.delay_timer = m.v[x]])}
      [] instr_low = 24 -> {Ok([m EXCEPT !.sound_timer = m.v[x]])}
      [] instr_low = 30 ->
            {OnOverflow(checks, m.i + m.v[x] > 65535,
                        [m EXCEPT !.i = (m.i + m.v[x]) % 65536],
                        m)}
      [] instr_low = 41 -> {Ok([m EXCEPT !.i = 80 + 5 * m.v[x]])}
      [] instr_low = 51 -> {store_bcd(m, checks)}
      [] instr_low = 85 -> {store_regs(m, 0)}
      [] instr_low = 101 -> {load_regs(m, 0)}
      [] OTHER -> {Panic(m)}

\* ------------------------------------------------------------------------
\* The loop body after the dispatch
\* ------------------------------------------------------------------------
\* Mutant of timer_update: the timers are decremented without the > 0 test
\* (wrapping at 0).
timer_update_wrapping(m, due) ==
    IF ~due THEN m
    ELSE [m EXCEPT !.delay_timer = (m.delay_timer + 255) % 256,
                   !.sound_timer = (m.sound_timer + 255) % 256]

\* Lines 302-319. `due`: at least 1/64 s passed since last_timer_update.
\* The audio output (rodio) and the window (minifb) are taken to work: their
\* unwrap() calls do not panic.
timer_update(m, due) ==
    IF ~due THEN m
    ELSE
        LET m1 == IF m.delay_timer > 0
                  THEN [m EXCEPT !.delay_timer = m.delay_timer - 1]
                  ELSE m
        IN  IF m1.sound_timer > 0
            THEN [m1 EXCEPT !.sound_timer = m1.sound_timer - 1]
            ELSE m1

\* ------------------------------------------------------------------------
\* Bounds and inputs: the ROM files and the input snapshots explored
\* ------------------------------------------------------------------------
MaxNest == 17
MaxKey == 1

\* The sets of held keys a window update can report.
HeldSets == SUBSET (0 .. MaxKey)

\* Instruction words, and a program as the bytes of its words (big-endian).
Ixyn(f, a, b, c) == f * 4096 + a * 256 + b * 16 + c
Ixnn(f, a, nn) == f * 4096 + a * 256 + nn
Innn(f, addr) == f * 4096 + addr

Bytes(ws) ==
    [k \in 1 .. 2 * Len(ws) |->
        IF k % 2 = 1 THEN ws[(k + 1) \div 2] \div 256 ELSE ws[k \div 2] % 256]

\* d nested calls, then d returns: call j (1..d) sits at CallAddr(j) and calls
\* CallAddr(j + 1); the word after each call is 00EE (after the first call it
\* is 0000, where the program stops); the innermost target holds 00EE.
CallAddr(j) == rom_start + 4 * (j - 1)

NestROM(d) ==
    Bytes([k \in 1 .. 2 * d + 1 |->
        IF k = 2 * d + 1 THEN 238
        ELSE IF k % 2 = 1 THEN Innn(2, rom_start + 2 * (k + 1))
        ELSE IF k = 2 THEN 0
        ELSE 238])

NestROMs == { NestROM(d) : d \in 1 .. MaxNest }

\* Jump targets and register values tried.
Targets == {0, 2, 514, 768, 4094, 4095}
ByteSamples == {0, 1, 128, 255}

JumpROMs ==
    { Bytes(<<Innn(1, t)>>) : t \in Targets }
    \cup { Bytes(<<Innn(2, t)>>) : t \in Targets }
    \cup { Bytes(<<Ixnn(6, 0, b), Innn(11, t)>>) : b \in ByteSamples, t \in Targets }

SkipROMs ==
    { Bytes(<<Ixnn(6, 1, a), Ixnn(6, 2, b), w>>) :
        a \in {0, 1}, b \in {0, 1},
        w \in {Ixnn(3, 1, 1), Ixnn(4, 1, 1), Ixyn(5, 1, 2, 0), Ixyn(9, 1, 2, 0)} }

\* 8xy_ with x in {1, 0xF} and y = 3, every sub-form and one unrecognized one.
AluOps == {0, 1, 2, 3, 4, 5, 6, 7, 14, 8}

AluROMs ==
    { Bytes(<<Ixnn(6, r, a), Ixnn(6, 3, b), Ixyn(8, r, 3, op)>>) :
        r \in {1, 15}, a \in {1, 255}, b \in {1, 255}, op \in AluOps }
    \cup { Bytes(<<Ixnn(6, 1, a), Ixnn(6, op, b), Ixyn(8, 1, op, op)>>) :
            a \in {1, 255}, b \in {1, 255}, op \in {4, 5, 7} }
    \cup { Bytes(<<Ixnn(6, 1, a), Ixnn(7, 1, b)>>) : a \in {1, 255}, b \in {1, 255} }

\* Two draws of the first n rows of the font glyph "0" (at font_start): the
\* first with V0 = x0 and Vn = y0, the second moved by (dx, dy).
DrawROM(x0, y0, n, dx, dy) ==
    Bytes(<<Ixnn(6, 0, x0), Ixnn(6, n, y0), Innn(10, font_start), Ixyn(13, 0, 1, n),
            Ixnn(6, 0, x0 + dx), Ixnn(6, n, y0 + dy), Ixyn(13, 0, 1, n)>>)

DrawROMs ==
    { DrawROM(o[1], o[2], n, d[1], d[2]) :
        o \in {<<0, 0>>, <<126, 62>>},
        n \in {1, 2, 5},
        d \in {<<0, 0>>, <<1, 0>>, <<0, 1>>, <<8, 0>>} }
    \cup { Bytes(<<Ixnn(6, 15, 5), Innn(10, font_start), Ixyn(13, 15, 0, 2)>>),
            Bytes(<<Ixnn(6, 15, 5), Innn(10, font_start), Ixyn(13, 15, 2, 2)>>),
            Bytes(<<Ixnn(6, 15, 3), Ixnn(6, 0, 5), Innn(10, font_start),
                    Ixyn(13, 0, 15, 15)>>) }

KeyROMs ==
    { Bytes(<<Ixnn(15, 1, 10)>>),
      Bytes(<<Ixnn(15, 15, 10)>>),
      Bytes(<<Ixnn(15, 0, 10), Ixnn(15, 0, 10)>>),
      Bytes(<<Ixnn(6, 0, 3), Ixnn(15, 0, 21), Ixnn(15, 1, 10), Ixnn(15, 2, 7)>>) }
    \cup { Bytes(<<Ixnn(6, 1, k), Ixnn(14, 1, w)>>) : k \in {0, 1, 16}, w \in {158, 161, 0} }

\* Set V0..Vn to 1..n+1, store them at 0x300, clear them, load them back.
RoundTripROM(n) ==
    Bytes([k \in 1 .. n + 1 |-> Ixnn(6, k - 1, k)]
          \o <<Innn(10, 768), Ixnn(15, n, 85)>>
          \o [k \in 1 .. n + 1 |-> Ixnn(6, k - 1, 0)]
          \o <<Ixnn(15, n, 101)>>)

RoundTripROMs == { RoundTripROM(n) : n \in {0, 1, 15} }

MiscROMs ==
    { Bytes(<<Ixnn(0, 0, 224)>>),
      Bytes(<<Ixnn(12, 0, 3)>>),
      Bytes(<<Ixnn(12, 0, 0)>>),
      Bytes(<<Ixnn(6, 0, 255), Ixnn(12, 0, 0)>>),
      Bytes(<<Ixnn(6, 0, 2), Ixnn(15, 0, 24), Ixnn(15, 0, 30)>>),
      Bytes(<<Ixnn(6, 0, 234), Ixnn(15, 0, 41), Ixnn(15, 0, 51)>>),
      Bytes(<<Ixnn(15, 0, 255)>>) }

\* Delay timer = 255 and sound timer = 2, then a jump to itself at SpinAddr.
SpinAddr == rom_start + 8

TimerROM ==
    Bytes(<<Ixnn(6, 0, 255), Ixnn(6, 1, 2), Ixnn(15, 0, 21), Ixnn(15, 1, 24),
            Innn(1, SpinAddr)>>)

\* V1 = 5, I = font_start, delay timer = 5, a call (one stack slot), one sprite row
\* drawn, then one word that is not a recognised sub-form of its family.
IllegalWords ==
    {Innn(0, 0), Innn(0, 225), Innn(0, 239), Innn(0, 256)}
    \cup {Ixyn(8, 1, 2, n) : n \in {8, 9, 13, 15}}
    \cup {Ixnn(14, 1, nn) : nn \in {0, 158 + 1, 161 - 1, 255}}
    \cup {Ixnn(15, 1, nn) : nn \in {0, 8, 22, 52, 86, 102, 255}}

IllegalROM(w) ==
    Bytes(<<Ixnn(6, 1, 5), Innn(10, font_start), Ixnn(15, 1, 21), Innn(2, rom_start + 8),
            Ixyn(13, 1, 1, 1), w>>)

IllegalROMs == {IllegalROM(w) : w \in IllegalWords}

\* Memory accesses at the top of memory: a sprite read at I = 4096 and one that
\* runs from 4095 into 4096, and Fx33 / Fx55 / Fx65 at I = 4094 and 4095.
BoundsROMs ==
    { Bytes(<<Innn(10, MEM_SIZE - 1), Ixnn(6, 0, 1), Ixnn(15, 0, 30), Ixyn(13, 0, 0, 1)>>),
      Bytes(<<Innn(10, MEM_SIZE - 1), Ixyn(13, 0, 0, 2)>>) }
    \cup { Bytes(<<Ixnn(6, 0, 255), Ixnn(6, 1, 7), Ixnn(6, 2, 9), Innn(10, a), Ixnn(15, r, s)>>) :
              a \in {MEM_SIZE - 2, MEM_SIZE - 1}, r \in {0, 2}, s \in {51, 85, 101} }

\* V0 = 255 added to I = 0 as many times as it takes to reach 65535, the
\* largest u16, then Fx33.
WrapROM ==
    Bytes(<<Ixnn(6, 0, 255)>> \o [k \in 1 .. (65535 \div 255) |-> Ixnn(15, 0, 30)]
          \o <<Ixnn(15, 0, 51)>>)

\* The glyph "0" drawn at (0, 0), a call of a subroutine that only returns,
\* then 00E0 (after which control runs into the subroutine's 00EE).
DisplayROM ==
    Bytes(<<Innn(10, font_start), Ixyn(13, 0, 0, 5), Innn(2, rom_start + 8),
            Innn(0, 224), Innn(0, 238)>>)

\* Vr = v, I = a, Fx33: onto the font, onto zeroed memory and onto the last
\* three cells of memory.
BcdROMs ==
    { Bytes(<<Ixnn(6, r, v), Innn(10, a), Ixnn(15, r, 51)>>) :
        r \in {0, 3}, v \in {0, 7, 99, 100, 234, 255},
        a \in {font_start, 768, MEM_SIZE - 3} }

\* d nested calls whose subroutines return one after the other, and one more
\* 00EE (the second word) reached with sp = 0. With d = 16 slot 15 holds a
\* return address by then, with d < 16 it was never written.
UnderflowROM(d) ==
    Bytes([k \in 1 .. 2 * d + 1 |->
        IF k % 2 = 1 /\ k < 2 * d + 1 THEN Innn(2, rom_start + 2 * (k + 1)) ELSE 238])

UnderflowROMs == { UnderflowROM(d) : d \in {0, 1, STACK_SIZE} }

ROMS ==
    UnderflowROMs \cup BcdROMs \cup {DisplayROM} \cup BoundsROMs \cup {WrapROM} \cup IllegalROMs \cup NestROMs \cup JumpROMs \cup SkipROMs \cup AluROMs \cup DrawROMs
    \cup KeyROMs \cup RoundTripROMs \cup MiscROMs \cup {TimerROM}

\* ------------------------------------------------------------------------
\* The state machine
\* ------------------------------------------------------------------------
Init ==
    /\ rom \in ROMS
    /\ chip8 = load_rom(load_fonts(new_chip8), rom)
    /\ keys_down = {}
    /\ keys_released = {}
    /\ window_open = TRUE
    /\ phase = "fetch"

Op0 == CanFetch /\ family = 0 /\ Commit(exec_0(fetched))
Op1 == CanFetch /\ family = 1 /\ Commit(exec_1(fetched))
Op2 == CanFetch /\ family = 2 /\ Commit(exec_2(fetched))
Op3 == CanFetch /\ family = 3 /\ Commit(exec_3(fetched))
Op4 == CanFetch /\ family = 4 /\ Commit(exec_4(fetched))
Op5 == CanFetch /\ family = 5 /\ Commit(exec_5(fetched))
Op6 == CanFetch /\ family = 6 /\ Commit(exec_6(fetched))
Op7 == CanFetch /\ family = 7 /\ \E checks \in BOOLEAN : Commit(exec_7(fetched, checks))
Op8 == CanFetch /\ family = 8 /\ Commit(exec_8(fetched))
Op9 == CanFetch /\ family = 9 /\ Commit(exec_9(fetched))
OpA == CanFetch /\ family = 10 /\ Commit(exec_A(fetched))
OpB == CanFetch /\ family = 11 /\ Commit(exec_B(fetched))
OpC == CanFetch /\ family = 12 /\ \E rnd \in 0 .. 255 : Commit(exec_C(fetched, rnd))
OpD == CanFetch /\ family = 13 /\ Commit(exec_D(fetched))
OpE == CanFetch /\ family = 14 /\ Commit(exec_E(fetched))
OpF ==
    /\ CanFetch /\ family = 15
    /\ \E checks \in BOOLEAN : \E r \in exec_F(fetched, checks) : Commit(r)

\* mem[pc] or mem[pc + 1] is out of bounds: the fetch panics.
FetchFault ==
    /\ phase = "fetch" /\ window_open /\ chip8.pc + 1 >= MEM_SIZE
    /\ phase' = "panicked"
    /\ UNCHANGED <<chip8, keys_down, keys_released, window_open, rom>>

\* The `while` condition fails: main returns.
Exit ==
    /\ phase = "fetch" /\ ~window_open
    /\ phase' = "exited"
    /\ UNCHANGED <<chip8, keys_down, keys_released, window_open, rom>>

TimerUpdate ==
    /\ phase = "timer"
    /\ \E due \in BOOLEAN : chip8' = timer_update(chip8, due)
    /\ phase' = "render"
    /\ UNCHANGED <<keys_down, keys_released, window_open, rom>>

\* Lines 321-326: the display is copied to the frame buffer and the window is
\* updated, which refreshes the input state read in the next cycle.
Render ==
    /\ phase = "render"
    /\ \E held \in HeldSets, open \in BOOLEAN :
        /\ keys_down' = held
        /\ keys_released' = keys_down \ held
        /\ window_open' = open
    /\ phase' = "fetch"
    /\ UNCHANGED <<chip8, rom>>

Next ==
    \/ Op0 \/ Op1 \/ Op2 \/ Op3 \/ Op4 \/ Op5 \/ Op6 \/ Op7
    \/ Op8 \/ Op9 \/ OpA \/ OpB \/ OpC \/ OpD \/ OpE \/ OpF
    \/ FetchFault \/ Exit \/ TimerUpdate \/ Render

Spec == Init /\ [][Next]_vars

\* The programs that wait for a key, alone, with the actions their
\* instructions (6xnn, Ex__, Fx__, and the 0000 that ends them) can take; the
\* loop keeps running while its condition holds.
LiveInit == Init /\ rom \in KeyROMs

LiveNext == Op0 \/ Op6 \/ OpE \/ OpF \/ Exit \/ TimerUpdate \/ Render

LiveSpec == LiveInit /\ [][LiveNext]_vars /\ WF_vars(LiveNext)

\* ------------------------------------------------------------------------
\* Properties
\* ------------------------------------------------------------------------
\* The instruction word at pc and its fields, as the instruction set defines
\* them (arithmetic on the 16-bit word, independent of the decode above).
Word == instr_high * 256 + instr_low
FieldX == (Word \div 256) % 16
FieldY == (Word \div 16) % 16
FieldN == Word % 16
FieldNN == Word % 256
FieldNNN == Word % 4096

\* The depth d of the loaded nest program (2d + 1 words), whether a nest
\* program is loaded, and the number j with pc in {CallAddr(j), CallAddr(j) + 2}.
NestDepth == Len(rom) \div 4
IsNest == NestDepth \in 1 .. MaxNest /\ rom = NestROM(NestDepth)
NestIndex == (chip8.pc - rom_start) \div 4 + 1

\* C1: from an empty call stack, after d nested 2nnn calls (d in 1..16) the
\* d returns that follow each set pc to the address after the matching call
\* (call address + 2), innermost call first, and the last one leaves sp = 0.
\* In the nest program the return executed at CallAddr(j) or CallAddr(j) + 2
\* is the one matching call j - 1, with j - 2 calls still outstanding.
C1_NestedCallsReturn ==
    [][ ( /\ CanFetch /\ family = 0 /\ instr_low = 238
          /\ IsNest
          /\ NestDepth <= 16 )
        => ( /\ phase' = "timer"
             /\ chip8'.pc = CallAddr(NestIndex - 1) + 2
             /\ chip8'.sp = NestIndex - 2
             /\ (NestIndex = 2 => chip8'.sp = 0) ) ]_vars

\* C1 witness: 16 nested calls and 16 returns have run; pc is after call 1.
C1_Witness ==
    /\ rom = NestROM(16)
    /\ phase = "timer"
    /\ chip8.pc = CallAddr(1) + 2
    /\ chip8.sp = 0
    /\ chip8.stack[15] = CallAddr(16) + 2

\* C2: sp stays in 0..15 and the stack keeps its 16 slots; the 17th nested
\* call does not fault, writes its return address into slot 0 (which held the
\* return address of the first call), changes no other slot and leaves sp = 1.
C2_StackWraps ==
    /\ [](chip8.sp \in 0 .. 15 /\ DOMAIN chip8.stack = 0 .. 15)
    /\ [][ ( /\ CanFetch /\ family = 2 /\ chip8.pc = CallAddr(17)
             /\ IsNest
             /\ NestDepth >= 17 )
           => ( /\ phase' = "timer"
                /\ chip8.sp = 0
                /\ chip8.stack[0] = CallAddr(1) + 2
                /\ chip8'.stack[0] = CallAddr(17) + 2
                /\ \A s \in 1 .. 15 : chip8'.stack[s] = chip8.stack[s]
                /\ chip8'.sp = 1 ) ]_vars

\* C2 witness: the 17th nested call has run.
C2_Witness ==
    /\ rom = NestROM(17)
    /\ phase = "timer"
    /\ chip8.pc = CallAddr(18)
    /\ chip8.sp = 1
    /\ chip8.stack[0] = CallAddr(17) + 2

\* C3: after 1nnn and after 2nnn pc = nnn, after Bnnn pc = V0 + nnn with V0
\* as it was before the instruction; the fetch-time + 2 is not in the result.
C3_JumpTargetExact ==
    [][ (CanFetch /\ family \in {1, 2, 11})
        => ( /\ phase' = "timer"
             /\ chip8'.pc = IF family = 11 THEN chip8.v[0] + FieldNNN ELSE FieldNNN ) ]_vars

\* C3 witness: B with V0 = 255 and nnn = 0xFFF has run.
C3_Witness ==
    /\ rom = Bytes(<<Ixnn(6, 0, 255), Innn(11, 4095)>>)
    /\ phase = "timer"
    /\ chip8.pc = 4350

\* C4: for every instruction word the operand fields used by execution are
\* x = bits 8-11, n = bits 0-3, nn = the low byte, nnn = bits 0-11, and for the
\* families that use a second register (5xy0, 8xy_, 9xy0, Dxyn) y = bits 4-7.
C4_OperandFields ==
    CanFetch =>
        /\ x = FieldX
        /\ z = FieldN
        /\ instr_low = FieldNN
        /\ nnn = FieldNNN
        /\ (family \in {5, 8, 9, 13} => y = FieldY)

\* The minuend and subtrahend of 8xy5 (Vx - Vy) and 8xy7 (Vy - Vx).
SubMinuend == IF FieldN = 5 THEN chip8.v[FieldX] ELSE chip8.v[FieldY]
SubSubtrahend == IF FieldN = 5 THEN chip8.v[FieldY] ELSE chip8.v[FieldX]

\* C5: 8xy5 sets Vx to (Vx - Vy) mod 256 and 8xy7 sets Vx to (Vy - Vx) mod 256;
\* both set VF to 1 iff the subtraction did not borrow (minuend >= subtrahend),
\* else 0. (For x = 0xF the flag is what remains in VF.)
C5_SubtractNoBorrowFlag ==
    [][ (CanFetch /\ family = 8 /\ FieldN \in {5, 7})
        => ( /\ phase' = "timer"
             /\ (FieldX # 15 =>
                    chip8'.v[FieldX] = (SubMinuend - SubSubtrahend + 256) % 256)
             /\ chip8'.v[15] = IF SubMinuend >= SubSubtrahend THEN 1 ELSE 0 ) ]_vars

\* C6: 8xy4 sets Vx to (Vx + Vy) mod 256 and VF to 1 exactly when the
\* pre-wrap sum Vx + Vy is >= 256, else 0 (for x = 0xF the flag remains in VF).
C6_AddCarryFlag ==
    [][ (CanFetch /\ family = 8 /\ FieldN = 4)
        => ( /\ phase' = "timer"
             /\ (FieldX # 15 =>
                    chip8'.v[FieldX] = (chip8.v[FieldX] + chip8.v[FieldY]) % 256)
             /\ chip8'.v[15] =
                    IF chip8.v[FieldX] + chip8.v[FieldY] >= 256 THEN 1 ELSE 0 ) ]_vars

\* C7: after Dxyn, VF is 1 iff some display cell was toggled from set to unset
\* by the draw (every cell is toggled at most once by one draw, so these are
\* the cells set before and unset after), and 0 otherwise, whichever row of
\* the sprite the cell belongs to.
C7_CollisionFlag ==
    [][ (CanFetch /\ family = 13 /\ phase' = "timer")
        => ( /\ chip8'.v[15] \in {0, 1}
             /\ chip8'.v[15] = 1 <=> chip8.display \ chip8'.display # {} ) ]_vars

\* C7 witness: the second draw of a 2-row sprite, one row lower than the
\* first, collided in its first row only (its last row fell on unset cells).
C7_Witness ==
    /\ rom = DrawROM(0, 0, 2, 0, 1)
    /\ phase = "timer"
    /\ chip8.pc = rom_start + 14
    /\ chip8.v[15] = 1
    /\ chip8.display = {<<0, 0>>, <<0, 1>>, <<0, 2>>, <<0, 3>>,
                        <<1, 1>>, <<1, 2>>, <<2, 0>>, <<2, 3>>}

\* The cells the sprite of Dxyn covers, as the instruction set defines them:
\* origin (Vx mod 64, Vy mod 32), bit c (from the left) of row r at
\* (column origin + c, row origin + r), clipped at column 63 and row 31.
SpriteCells ==
    LET ox == chip8.v[FieldX] % 64
        oy == chip8.v[FieldY] % 32
    IN  { <<oy + r, ox + c>> : r \in 0 .. FieldN - 1, c \in 0 .. 7 } \cap
        { cell \in (0 .. HEIGHT - 1) \X (0 .. WIDTH - 1) :
            BitAnd(mem_get(chip8, chip8.i + (cell[1] - oy)),
                   Shr(128, cell[2] - ox)) # 0 }

\* C8: Dxyn (with the sprite bytes inside memory) toggles exactly the cells
\* of SpriteCells, all inside columns 0..63 and rows 0..31, and no other cell.
C8_DrawClipped ==
    [][ (CanFetch /\ family = 13 /\ chip8.i + FieldN <= MEM_SIZE)
        => ( /\ phase' = "timer"
             /\ chip8'.display \subseteq (0 .. HEIGHT - 1) \X (0 .. WIDTH - 1)
             /\ chip8'.display =
                    (chip8.display \ SpriteCells) \cup (SpriteCells \ chip8.display) ) ]_vars

\* pc is at an Fx0A instruction; KeyWait: that instruction is about to run.
PcAtKeyWait == chip8.pc + 1 < MEM_SIZE /\ family = 15 /\ instr_low = 10
KeyWait == CanFetch /\ PcAtKeyWait

\* The addresses at which the programs of KeyROMs hold an Fx0A.
KeyWaitAddrs == {rom_start, rom_start + 2, rom_start + 4}

\* C9: Fx0A run with no key held leaves the whole machine state as it was
\* (pc still at the Fx0A) and the cycle goes on to the timer update and the
\* render; run with a key held it puts the code of a held key in Vx, moves pc
\* to the next instruction and changes nothing else; and once a key is held
\* when it runs, the machine leaves the Fx0A instruction.
C9_KeyWaitPolls ==
    /\ [][ (KeyWait /\ keys_down = {})
           => (chip8' = chip8 /\ phase' = "timer") ]_vars
    /\ [][ (KeyWait /\ keys_down # {})
           => ( /\ phase' = "timer"
                /\ chip8'.v[FieldX] \in keys_down
                /\ chip8' = [chip8 EXCEPT !.v[FieldX] = chip8'.v[FieldX],
                                          !.pc = chip8.pc + 2] ) ]_vars
    /\ \A a \in KeyWaitAddrs :
        (KeyWait /\ chip8.pc = a /\ keys_down = {}) ~> (phase = "render" /\ chip8.pc = a)
    /\ \A a \in KeyWaitAddrs :
        (KeyWait /\ chip8.pc = a /\ keys_down # {}) ~> (chip8.pc # a)

\* C9 witness: the delay timer, set to 3 one instruction before the Fx0A, has
\* ticked down to 0 during the cycles spent waiting; then key 1 was taken.
C9_Witness ==
    /\ rom = Bytes(<<Ixnn(6, 0, 3), Ixnn(15, 0, 21), Ixnn(15, 1, 10), Ixnn(15, 2, 7)>>)
    /\ phase = "timer"
    /\ chip8.pc = rom_start + 6
    /\ chip8.v[1] = 1
    /\ chip8.delay_timer = 0

\* The register count of the loaded round-trip program (x of Fx55 / Fx65).
RoundTripX == CHOOSE n \in 0 .. 15 : rom = RoundTripROM(n)

\* C10: Fx55, then V0..Vx cleared, then Fx65 with the same x and I restores
\* the values V0..Vx had, Vx included. In the round-trip program the values
\* are Vk = k + 1 and the Fx65 is its last instruction.
C10_StoreLoadRoundTrip ==
    ( /\ rom \in RoundTripROMs
      /\ phase = "timer"
      /\ chip8.pc = rom_start + Len(rom) )
    => \A k \in 0 .. RoundTripX : chip8.v[k] = k + 1

\* A timer after one tick: one less if it is nonzero, 0 if it is 0.
Ticked(t) == IF t > 0 THEN t - 1 ELSE 0

\* C11: a timer update leaves each timer as it is (no tick due) or decrements
\* it by exactly 1 if nonzero and leaves it at 0 if 0; a tick decrements both
\* nonzero timers together; nothing else of the machine changes in it; and no
\* other step changes a timer, except Fx15 (delay = Vx) and Fx18 (sound = Vx).
\* So a delay timer set to 255 passes through every value down to 0, one tick
\* each, however many instructions run between ticks.
C11_TimerTicks ==
    [][ /\ phase = "timer" =>
            /\ chip8'.delay_timer \in {chip8.delay_timer, Ticked(chip8.delay_timer)}
            /\ chip8'.sound_timer \in {chip8.sound_timer, Ticked(chip8.sound_timer)}
            /\ (chip8.delay_timer > 0 /\ chip8.sound_timer > 0) =>
                  (chip8'.delay_timer = chip8.delay_timer
                      <=> chip8'.sound_timer = chip8.sound_timer)
            /\ chip8' = [chip8 EXCEPT !.delay_timer = chip8'.delay_timer,
                                      !.sound_timer = chip8'.sound_timer]
        /\ (phase # "timer" /\ chip8'.delay_timer # chip8.delay_timer) =>
            /\ CanFetch /\ family = 15 /\ instr_low = 21
            /\ chip8'.delay_timer = chip8.v[FieldX]
        /\ (phase # "timer" /\ chip8'.sound_timer # chip8.sound_timer) =>
            /\ CanFetch /\ family = 15 /\ instr_low = 24
            /\ chip8'.sound_timer = chip8.v[FieldX] ]_vars

\* C11 witness: the delay timer set to 255 has come down to 0 in the spin loop.
C11_Witness ==
    /\ rom = TimerROM
    /\ phase = "render"
    /\ chip8.pc = SpinAddr
    /\ chip8.delay_timer = 0
    /\ chip8.sound_timer = 0
    /\ chip8.v[0] = 255

\* The recognised sub-forms of the families 0x0, 0x8, 0xE and 0xF.
Recognised ==
    CASE family = 0 -> FieldNN \in {224, 238}
      [] family = 8 -> FieldN \in (0 .. 7) \cup {14}
      [] family = 14 -> FieldNN \in {158, 161}
      [] family = 15 -> FieldNN \in {7, 10, 21, 24, 30, 41, 51, 85, 101}
      [] OTHER -> TRUE

\* C12: a fetched word of family 0x0, 0x8, 0xE or 0xF whose sub-form is not
\* recognised stops the interpreter with a fault, and registers, I, memory,
\* stack, sp, timers and display are as they were before the word (only pc has
\* been advanced past it).
C12_IllegalSubFormFaults ==
    [][ (CanFetch /\ ~Recognised)
        => ( /\ phase' = "panicked"
             /\ chip8' = [chip8 EXCEPT !.pc = chip8.pc + 2] ) ]_vars

\* C12 witness: a program that set V1, I, a timer, a stack slot and lit cells
\* has faulted on its unrecognised word.
C12_Witness ==
    /\ rom \in IllegalROMs
    /\ phase = "panicked"
    /\ chip8.pc = rom_start + 12
    /\ chip8.v[1] = 5
    /\ chip8.i = font_start
    /\ chip8.sp = 1
    /\ chip8.display # {}

\* The memory cells whose content differs between this state and the next.
Touched ==
    { a \in DOMAIN chip8.mem \cup DOMAIN chip8'.mem :
        mem_get(chip8', a) # mem_get(chip8, a) }

\* C13: memory accesses stay inside 0 .. 4095 and an address beyond 4095 is
\* never wrapped or clamped into it: a fetch at pc > 4094, a sprite row read at
\* I + row > 4095, and an Fx33 / Fx55 / Fx65 access at I + k > 4095 each end in
\* a fault, and the cells the instruction has written up to then are among the
\* ones it addresses (I .. I + 2 for Fx33, I .. I + x for Fx55, none otherwise).
C13_OutOfRangeFaults ==
    [][ /\ (phase = "fetch" /\ window_open /\ chip8.pc > MEM_SIZE - 2)
            => (phase' = "panicked" /\ chip8' = chip8)
        /\ (CanFetch /\ family = 13 /\ FieldN > 0 /\ chip8.i > MEM_SIZE - 1)
            => (phase' = "panicked" /\ Touched = {})
        /\ (CanFetch /\ family = 15 /\ FieldNN = 51 /\ chip8.i + 2 > MEM_SIZE - 1)
            => (phase' = "panicked" /\ Touched \subseteq chip8.i .. chip8.i + 2)
        /\ (CanFetch /\ family = 15 /\ FieldNN = 85 /\ FieldX > 0
              /\ chip8.i + FieldX - 1 > MEM_SIZE - 1)
            => (phase' = "panicked" /\ Touched \subseteq chip8.i .. chip8.i + FieldX)
        /\ (CanFetch /\ family = 15 /\ FieldNN = 101 /\ FieldX > 0
              /\ chip8.i + FieldX - 1 > MEM_SIZE - 1)
            => (phase' = "panicked" /\ Touched = {}) ]_vars

\* C14: for Vx a key code 0x0..0xF, Ex9E adds 2 more to pc iff key Vx is held
\* in the current input snapshot and ExA1 adds 2 more iff it is not held, so
\* exactly one of the two skips in any snapshot.
C14_KeySkips ==
    [][ (CanFetch /\ family = 14 /\ FieldNN \in {158, 161} /\ chip8.v[FieldX] \in KeyCodes)
        => ( /\ phase' = "timer"
             /\ chip8'.pc = chip8.pc + 2
                   + (IF (FieldNN = 158) <=> (chip8.v[FieldX] \in keys_down)
                      THEN 2 ELSE 0) ) ]_vars

\* C15: the display changes only in a step that executes 00E0 or Dxyn, and
\* 00E0 leaves every cell off; every other instruction, the timer update and
\* the render step leave the display as it is.
C15_DisplayWriters ==
    [][ /\ (chip8'.display # chip8.display)
            => (CanFetch /\ ((family = 0 /\ FieldNN = 224) \/ family = 13))
        /\ (CanFetch /\ family = 0 /\ FieldNN = 224) => chip8'.display = {} ]_vars

\* C15 witness: after a draw that lit cells, a call and a return, 00E0 has
\* cleared the display.
C15_Witness ==
    /\ rom = DisplayROM
    /\ phase = "timer"
    /\ chip8.pc = rom_start + 8
    /\ chip8.sp = 0
    /\ chip8.display = {}

\* C16: 7xnn sets Vx to (Vx + nn) mod 256 and does not fault when the sum
\* exceeds 255; VF (for x # 0xF) and every other register, I, memory, stack,
\* timers and display are unchanged.
C16_AddImmediateWraps ==
    [][ (CanFetch /\ family = 7)
        => ( /\ phase' = "timer"
             /\ chip8' = [chip8 EXCEPT !.pc = chip8.pc + 2,
                                       !.v[FieldX] = (chip8.v[FieldX] + FieldNN) % 256] ) ]_vars

\* The results the arm of the fetched word can produce in one build, over
\* everything the arm draws from outside the machine state and the input
\* snapshot (the random byte of Cxnn, the iteration order of key_map in Fx0A).
Outcomes(checks) ==
    CASE family = 0 -> {exec_0(fetched)}
      [] family = 1 -> {exec_1(fetched)}
      [] family = 2 -> {exec_2(fetched)}
      [] family = 3 -> {exec_3(fetched)}
      [] family = 4 -> {exec_4(fetched)}
      [] family = 5 -> {exec_5(fetched)}
      [] family = 6 -> {exec_6(fetched)}
      [] family = 7 -> {exec_7(fetched, checks)}
      [] family = 8 -> {exec_8(fetched)}
      [] family = 9 -> {exec_9(fetched)}
      [] family = 10 -> {exec_A(fetched)}
      [] family = 11 -> {exec_B(fetched)}
      [] family = 12 -> {exec_C(fetched, rnd) : rnd \in 0 .. 255}
      [] family = 13 -> {exec_D(fetched)}
      [] family = 14 -> {exec_E(fetched)}
      [] family = 15 -> exec_F(fetched, checks)

C18_DecimalDigits ==
    [][ (CanFetch /\ family = 15 /\ FieldNN = 51 /\ chip8.i + 2 <= MEM_SIZE - 1)
        => ( /\ phase' = "timer"
             /\ mem_get(chip8', chip8.i) = chip8.v[FieldX] \div 100
             /\ mem_get(chip8', chip8.i + 1) = (chip8.v[FieldX] \div 10) % 10
             /\ mem_get(chip8', chip8.i + 2) = chip8.v[FieldX] % 10
             /\ Touched \subseteq chip8.i .. chip8.i + 2
             /\ [chip8' EXCEPT !.mem = chip8.mem] = [chip8 EXCEPT !.pc = chip8.pc + 2] ) ]_vars

\* C18 witness: V3 = 234 has been stored as 2, 3, 4 in the last three cells.
C18_Witness ==
    /\ rom \in BcdROMs
    /\ phase = "timer"
    /\ chip8.pc = rom_start + 6
    /\ chip8.v[3] = 234
    /\ chip8.i = MEM_SIZE - 3
    /\ mem_get(chip8, MEM_SIZE - 3) = 2
    /\ mem_get(chip8, MEM_SIZE - 2) = 3
    /\ mem_get(chip8, MEM_SIZE - 1) = 4

\* C19: 00EE executed with sp = 0 does not fault: sp becomes 15 and pc becomes
\* the content of stack slot 15 (0 if the slot was never written); nothing
\* else changes.
C19_ReturnUnderflow ==
    [][ (CanFetch /\ family = 0 /\ FieldNN = 238 /\ chip8.sp = 0)
        => ( /\ phase' = "timer"
             /\ chip8' = [chip8 EXCEPT !.sp = 15, !.pc = chip8.stack[15]] ) ]_vars

\* C19 witness: after 16 calls and 16 returns a 17th return has taken the
\* return address of the 16th call from slot 15.
C19_Witness ==
    /\ rom = UnderflowROM(STACK_SIZE)
    /\ phase = "timer"
    /\ chip8.sp = 15
    /\ chip8.stack[15] = CallAddr(STACK_SIZE) + 2
    /\ chip8.pc = CallAddr(STACK_SIZE) + 2

\* C20: Dxyn draws at the origin (Vx mod 64, Vy mod 32) taken from the values
\* Vx and Vy have before the instruction, every row from the same column, also
\* when x or y is 0xF (the cells toggled are SpriteCells); and after 8xy6 / 8xyE
\* VF is the bit shifted out of the value Vx has before the instruction (its
\* lowest bit for 8xy6, its highest for 8xyE), for every x in 0 .. 15.
C20_OperandsReadFirst ==
    [][ /\ (CanFetch /\ family = 13 /\ chip8.i + FieldN <= MEM_SIZE)
            => chip8'.display =
                  (chip8.display \ SpriteCells) \cup (SpriteCells \ chip8.display)
        /\ (CanFetch /\ family = 8 /\ FieldN = 6)
            => chip8'.v[15] = chip8.v[FieldX] % 2
        /\ (CanFetch /\ family = 8 /\ FieldN = 14)
            => chip8'.v[15] = chip8.v[FieldX] \div 128 ]_vars

====
